---- MODULE Spec2Model ----
(***************************************************************************)
(* The download-and-integrity pipeline of ztfquery/io.py as a state        *)
(* machine: the local cache (data files and their .md5 sidecars), the      *)
(* requests session, the network requests issued so far, the public        *)
(* operation in progress (get_file, bulk_get_file, download_from_filename, *)
(* download_url, test_files, run_full_filecheck) and, per executor (the    *)
(* calling thread and the multiprocessing.Pool workers), the stack of      *)
(* download_single_url / _test_file_ calls it is running.                  *)
(*                                                                         *)
(* A file's content is abstracted to what the format-aware parse           *)
(* (fits.getdata, open().read()) makes of it: "valid" parses, "corrupt"    *)
(* and "partial" (opened for writing, not yet completely written) do not.  *)
(* A path is its sequence of name parts, so that the source's substring    *)
(* tests (".fits" in filename) are computed, not assumed.                  *)
(***************************************************************************)
EXTENDS Naturals, Sequences, FiniteSets, TLC

\* ------------------------------------------------------------------ bounds
MaxBatch == 2
MaxWorkers == 2

\* ------------------------------------------------------------------- paths
F1 == <<"sci", "a", ".fits">>
T1 == <<"tmp", "b", ".txt">>
D1 == <<"sci", "c", ".dat">>
Paths == {F1, T1, D1}

HasPart(p, part) == \E i \in DOMAIN p : p[i] = part

IsFits(p) == HasPart(p, ".fits")

IsText(p) == ~IsFits(p) /\ HasPart(p, ".txt")

\* buildurl._localsource_to_source_: the url and the location ("irsa") of a
\* local path of a known archive directory, (None, None) for any other path
KnownKinds == {"sci", "raw", "ref", "cal"}

_localsource_to_source_(p) ==
    IF p[1] \in KnownKinds THEN [url |-> p, location |-> "irsa"]
    ELSE [url |-> "None", location |-> "None"]

AllowedHosts == {"irsa", "ccin2p3"}

\* ---------------------------------------------------------------- contents
Absent == "absent"
ParseOK(c) == c = "valid"

NoHash == "none"
calculate_hash(c) == <<"md5", c>>

\* (a variant that never finds the sidecar)
hash_for_file_missing(hs, p) == hs[p] # hs[p]

hash_for_file_exists(hs, p) == hs[p] # NoHash

os_path_isfile(fs, p) == fs[p] # Absent

\* --------------------------------------------------------------- executors
Main == 0
Workers == 1..MaxWorkers
Execs == {Main} \cup Workers

VARIABLES
    files,      \* path -> content of the data file, Absent when there is none
    hashes,     \* path -> digest held by the sidecar <path>.md5, NoHash when none
    inode,      \* path -> number of files created at the path since the call: which
                \* file is there now (a file removed while a writer holds it open
                \* is gone from the path, and what is written to it is lost)
    session,    \* the requests.Session: "none", "fresh", "cookies", "closed"
    nlogin,     \* requests sent to LOGIN_URL so far
    ncred,      \* reads of the stored IRSA account (_load_id_) so far
    nfetch,     \* path -> GET/POST requests sent for the url of that path
    resolved,   \* remote urls have been built (filename_to_url with source=host)
    op,         \* the public operation called and its arguments
    mpc,        \* where the calling thread is in that operation
    batch,      \* the paths of the batch being downloaded or checked
    todo,       \* indices of batch not yet handed to an executor
    stack,      \* executor -> its stack of download_single_url/_test_file_ frames
    cur,        \* executor -> index of the task it runs (0: none)
    results,    \* outcomes completed by the executors: records [i, exc, val]
    got,        \* indices whose outcome the calling thread has consumed, in order
    pool,       \* the pool: "none", "open", "closed", "leaked", "terminated"; "dask": a client
    bulki,      \* bulk_get_file: number of get_file calls completed
    flags,      \* get_file: flag_todl of the last call, <<>> before it is computed
    call,       \* the arguments download_url was called with
    fileissue,  \* test_files: the files that failed the check, in the order found
    ret,        \* what the operation returned or raised, "none" while it runs
    files0      \* the data files as they were when the operation was called

vars == <<files, hashes, inode, session, nlogin, ncred, nfetch, resolved, op, mpc, batch,
          todo, stack, cur, results, got, pool, bulki, flags, call, fileissue, ret,
          files0>>

fsvars == <<files, hashes, inode>>
netvars == <<session, nlogin, ncred, nfetch, resolved>>
topvars == <<op, files0, mpc, batch, todo, got, pool, bulki, flags, call, fileissue, ret>>

\* ------------------------------------------------------------ initial sets
SeqsUpTo(S, n) == UNION {[1..k -> S] : k \in 1..n}

PathList == <<F1, T1, D1>>

Position(p) == CHOOSE i \in DOMAIN PathList : PathList[i] = p

\* batches that name no path twice, in the order of PathList
DistinctBatches ==
    {s \in SeqsUpTo(Paths, MaxBatch) :
        \A i, j \in DOMAIN s : i < j => Position(s[i]) < Position(s[j])}

\* batches that may name a path more than once
AnyBatches == SeqsUpTo(Paths, MaxBatch)

Range(s) == {s[i] : i \in DOMAIN s}

\* the cache before the call: nothing outside the paths the call names; a
\* sidecar, where there is one, holds the digest written when the file was
\* last verified, whatever the file holds now
InitFiles(ps) ==
    {f \in [Paths -> {Absent, "valid", "corrupt"}] : \A p \in Paths \ ps : f[p] = Absent}

InitHashes(ps, f) ==
    {h \in [Paths -> {NoHash, calculate_hash("valid")}] :
        \A p \in Paths : (p \notin ps \/ f[p] = Absent) => h[p] = NoHash}

NoOpt ==
    [kind |-> "none", paths |-> <<>>, overwrite |-> FALSE, test_file |-> TRUE,
     downloadit |-> TRUE, exist |-> TRUE, host |-> "irsa", nprocess |-> 1,
     own_pool |-> TRUE, filecheck |-> TRUE, erasebad |-> TRUE, write_hash |-> FALSE,
     redownload |-> FALSE, as_dask |-> "delayed", session0 |-> "none",
     extension |-> ".fits", cutouts |-> FALSE, radec |-> "None", client |-> FALSE,
     nprocess_none |-> FALSE, auth |-> "accepted", show_progress |-> TRUE,
     remote |-> "any"]

\* ----------------------------------------------------------------- frames
\* One call of download_single_url (fn "dsu") or of _test_file_ with the
\* _fileissue_ it may end in (fn "tf"), with the arguments the call was given,
\* the response received (resp), the content it carries or, for _test_file_,
\* the content the parse read (body), and the value the call will return (out).
Frame(fn, p, ow, ck, fc, eb, wh, fromdl, rd) ==
    [fn |-> fn, pc |-> "start", p |-> p, overwrite |-> ow, cookies |-> ck,
     filecheck |-> fc, erasebad |-> eb, write_hash |-> wh, fromdl |-> fromdl,
     redownload |-> rd, cutouts |-> FALSE, radec |-> "None", show_progress |-> TRUE,
     resp |-> "none", length |-> TRUE, body |-> "none", ino |-> 0, out |-> "none"]

DsuFrame(p, ow, ck, fc, eb, wh) == Frame("dsu", p, ow, ck, fc, eb, wh, FALSE, FALSE)

TfFrame(p, eb, fromdl, rd, wh) == Frame("tf", p, FALSE, "none", FALSE, eb, wh, fromdl, rd)

Top(e) == stack[e][Len(stack[e])]

SetTop(e, f) == [stack EXCEPT ![e] = [@ EXCEPT ![Len(@)] = f]]

ReplaceTopAndPush(e, f, g) == [stack EXCEPT ![e] = Append([@ EXCEPT ![Len(@)] = f], g)]

Running(e, fn, pc) ==
    /\ stack[e] # <<>>
    /\ Top(e).fn = fn
    /\ Top(e).pc = pc

\* ------------------------------------------------------------- get_cookie
\* What get_cookie(username, password, session, update) does to a session in
\* state s: no request when the session already holds cookies and update is
\* false; otherwise one login through the session (when there is one), which
\* attaches the cookies to it, and one more login whose cookies are returned.
\* No caller of the fetch side gives a username: the account is read from the
\* store before the logins.
get_cookie_always(s, update) ==
    [session |-> IF s = "none" THEN "none" ELSE "cookies",
     logins |-> IF s = "none" THEN 1 ELSE 2,
     loads |-> 1,
     jar |-> "jar"]

\* lines 888-891: the answer to the login is not looked at; the session holds
\* whatever cookies the host sent, none when it rejects the account
LoginCookies(s) == IF op.auth = "rejected" THEN s ELSE "cookies"

get_cookie(s, update) ==
    IF s # "none" /\ s = "cookies" /\ ~update
    THEN [session |-> s, logins |-> 0, loads |-> 0, jar |-> "none"]
    ELSE [session |-> IF s = "none" THEN "none" ELSE LoginCookies(s),
          logins |-> IF s = "none" THEN 1 ELSE 2,
          loads |-> 1,
          jar |-> "jar"]

\* A pool worker gets a pickled copy of the session: what it attaches to the
\* copy is lost when the task ends.
SessionAfter(e, s) == IF e = Main THEN s ELSE session

\* ------------------------------------------------------ the end of a call
\* No frame of a stack catches what its callee raises (_test_file_ calls
\* _fileissue_ from inside its except clause), and every nested call is the
\* caller's last statement: when the top frame returns or raises, the whole
\* stack ends, with the exception or else with the return value of the frame
\* at the bottom.
Outcome(e, v) == IF Len(stack[e]) = 1 THEN v ELSE stack[e][1].out

Complete(e, exc, v) ==
    /\ stack' = [stack EXCEPT ![e] = <<>>]
    /\ cur' = [cur EXCEPT ![e] = 0]
    /\ results' = results \cup {[i |-> cur[e], exc |-> exc, val |-> Outcome(e, v)]}
    /\ IF e = Main
       THEN /\ got' = Append(got, cur[e])
            /\ mpc' = IF exc # "none" THEN "raised" ELSE mpc
            /\ ret' = IF exc # "none" THEN exc ELSE ret
       ELSE UNCHANGED <<got, mpc, ret>>
    /\ UNCHANGED <<op, files0, batch, todo, pool, bulki, flags, call, fileissue>>

Continue(e, f) ==
    /\ stack' = SetTop(e, f)
    /\ UNCHANGED <<cur, results, topvars>>

Call(e, f, g) ==
    /\ stack' = ReplaceTopAndPush(e, f, g)
    /\ UNCHANGED <<cur, results, topvars>>

\* ---------------------------------------------------- download_single_url
\* lines 1076-1099: the cache short-circuit, then the cookies
\* download_single_url returns None whatever happened; "skipped", "http_error"
\* and "written" name the path the call took.

\* (a variant that skips when the destination is missing)
SkipCondInverted(f) == ~f.overwrite /\ ~os_path_isfile(files, f.p)

SkipCond(f) == ~f.overwrite /\ os_path_isfile(files, f.p)

\* lines 1083-1088: cutouts asked for without radec
CutoutError(f) == f.cutouts /\ f.radec = "None"

DsuStart(e) ==
    /\ Running(e, "dsu", "start")
    /\ LET f == Top(e)
           c == get_cookie(session, FALSE)
       IN  IF SkipCond(f)
           THEN /\ Complete(e, "none", "skipped")
                /\ UNCHANGED <<fsvars, netvars>>
           ELSE IF CutoutError(f)
           THEN /\ Complete(e, "ValueError", "none")
                /\ UNCHANGED <<fsvars, netvars>>
           ELSE /\ Continue(e, [f EXCEPT !.pc = "request"])
                /\ IF f.cookies = "none"
                   THEN /\ session' = SessionAfter(e, c.session)
                        /\ nlogin' = nlogin + c.logins
                        /\ ncred' = ncred + c.loads
                   ELSE UNCHANGED <<session, nlogin, ncred>>
                /\ UNCHANGED <<fsvars, nfetch, resolved>>

\* after the transfer (lines 1141-1142): the post-fetch check, if asked for
AfterTransfer(e, f) ==
    IF f.filecheck
    THEN Call(e, [f EXCEPT !.pc = "check"],
              TfFrame(f.p, f.erasebad, TRUE, FALSE, f.write_hash))
    ELSE Complete(e, "none", f.out)

\* lines 1118-1119, 1127-1128: the request and its status
Responses == {"ok_valid", "ok_corrupt", "error"}

\* (a variant that takes every response for a success)
StatusOKAlways(r) == r \in Responses

StatusOK(r) == r # "error"

Payload(r) == IF r = "ok_valid" THEN "valid" ELSE "corrupt"

\* what the remote may answer during the call: anything, or ("valid") always
\* 200 with a valid body and its length, over a stream that does not break
Served == IF op.remote = "valid" THEN {"ok_valid"} ELSE Responses

\* lines 1114-1119, 1124-1126: the request; length tells whether the answer
\* has a Content-Length header, which only the progress bar reads
DsuRequest(e) ==
    /\ Running(e, "dsu", "request")
    /\ \E r \in Served, hl \in BOOLEAN :
         LET f == Top(e) IN
           /\ hl \/ (op.remote = "any" /\ StatusOK(r) /\ f.show_progress)
           /\ nfetch' = [nfetch EXCEPT ![f.p] = @ + 1]
           /\ IF StatusOK(r)
              THEN Continue(e, [f EXCEPT !.pc = "open", !.resp = r, !.length = hl,
                                         !.body = Payload(r)])
              ELSE AfterTransfer(e, [f EXCEPT !.resp = r, !.out = "http_error"])
           /\ UNCHANGED <<fsvars, session, nlogin, ncred, resolved>>

\* (a variant that writes somewhere else and leaves the destination alone
\* until the transfer is complete)
DsuOpenAside(e) ==
    /\ Running(e, "dsu", "open")
    /\ IF Top(e).show_progress /\ ~Top(e).length
       THEN Complete(e, "TypeError", "none")
       ELSE Continue(e, [Top(e) EXCEPT !.pc = "write"])
    /\ UNCHANGED <<fsvars, netvars>>

\* lines 1120, 1130-1134: open(fileout, "wb") truncates the destination; with
\* the progress bar, int(response.headers.get("content-length")) comes next,
\* a TypeError when the header is missing
OpenedInode(p) == IF os_path_isfile(files, p) THEN inode[p] ELSE inode[p] + 1

DsuOpen(e) ==
    /\ Running(e, "dsu", "open")
    /\ files' = [files EXCEPT ![Top(e).p] = "partial"]
    /\ inode' = [inode EXCEPT ![Top(e).p] = OpenedInode(Top(e).p)]
    /\ IF Top(e).show_progress /\ ~Top(e).length
       THEN Complete(e, "TypeError", "none")
       ELSE Continue(e, [Top(e) EXCEPT !.pc = "write", !.ino = OpenedInode(Top(e).p)])
    /\ UNCHANGED <<hashes, netvars>>

\* lines 1121-1122, 1135-1139: the chunks are written straight into the
\* destination; the stream may break before the last one
\* the file the call opened is still the one at its path
Linked(f) == os_path_isfile(files, f.p) /\ inode[f.p] = f.ino

DsuWrite(e) ==
    /\ Running(e, "dsu", "write")
    /\ \E complete \in BOOLEAN :
         LET f == Top(e) IN
           /\ complete \/ op.remote = "any"
           /\ IF complete
              THEN /\ files' = IF Linked(f) THEN [files EXCEPT ![f.p] = f.body] ELSE files
                   /\ AfterTransfer(e, [f EXCEPT !.out = "written"])
                   /\ UNCHANGED <<hashes, inode, netvars>>
              ELSE /\ Complete(e, "TransferError", "none")
                   /\ UNCHANGED <<fsvars, netvars>>

\* ------------------------------------------------------------ _test_file_
\* (a variant that tests the .fits files only)
RecognizedFitsOnly(p) == HasPart(p, ".fits")

Recognized(p) == HasPart(p, ".fits") \/ HasPart(p, ".txt")

\* lines 788-821: the sidecar, else the parse and the hash
TfTest(e) ==
    /\ Running(e, "tf", "start")
    /\ LET f == Top(e) IN
         IF Recognized(f.p) /\ ~hash_for_file_exists(hashes, f.p)
              /\ os_path_isfile(files, f.p)
         THEN IF ParseOK(files[f.p])
              THEN /\ hashes' = IF f.write_hash
                                THEN [hashes EXCEPT ![f.p] = calculate_hash(files[f.p])]
                                ELSE hashes
                   /\ Complete(e, "none", "good")
                   /\ UNCHANGED <<files, inode, netvars>>
              ELSE /\ Continue(e, [f EXCEPT !.pc = "issue", !.body = files[f.p],
                                            !.out = "bad"])
                   /\ UNCHANGED <<fsvars, netvars>>
         ELSE /\ Complete(e, "none", "good")
              /\ UNCHANGED <<fsvars, netvars>>

\* _fileissue_, lines 831-849: os.remove, then the re-download
TfIssue(e) ==
    /\ Running(e, "tf", "issue")
    /\ LET f == Top(e)
           src == _localsource_to_source_(f.p)
       IN  IF f.erasebad /\ ~os_path_isfile(files, f.p)
           THEN /\ Complete(e, "FileNotFoundError", "none")
                /\ UNCHANGED <<fsvars, netvars>>
           ELSE /\ files' = IF f.erasebad THEN [files EXCEPT ![f.p] = Absent] ELSE files
                /\ IF f.redownload /\ src.url # "None"
                   THEN /\ nlogin' = nlogin + get_cookie("none", FALSE).logins
                        /\ ncred' = ncred + 1
                        /\ Call(e, [f EXCEPT !.pc = "redownload"],
                                DsuFrame(f.p, TRUE, "jar", TRUE, TRUE, FALSE))
                   ELSE /\ Complete(e, "none", "bad")
                        /\ UNCHANGED <<nlogin, ncred>>
                /\ UNCHANGED <<hashes, inode, session, nfetch, resolved>>

\* ---------------------------------------------------------------- get_file
\* lines 764-773, with test_exist=True
_is_fitsfile_bad_(fs, p) == IF ~os_path_isfile(fs, p) THEN TRUE ELSE ~ParseOK(fs[p])

\* lines 111-120: flag_todl, parallel to local_filenames
\* (a variant that flags the files that are present)
FlagToDlPresent(fs, p, overwrite, test_file) ==
    \/ overwrite
    \/ os_path_isfile(fs, p)
    \/ (test_file /\ HasPart(p, ".fits") /\ _is_fitsfile_bad_(fs, p))

FlagToDl(fs, p, overwrite, test_file) ==
    \/ overwrite
    \/ ~os_path_isfile(fs, p)
    \/ (test_file /\ HasPart(p, ".fits") /\ _is_fitsfile_bad_(fs, p))

DecideFlags(fs, paths, overwrite, test_file) ==
    [i \in DOMAIN paths |-> FlagToDl(fs, paths[i], overwrite, test_file)]

\* (a variant that keeps every path)
FlaggedAll(paths, fl) == paths

RECURSIVE Flagged(_, _)
Flagged(paths, fl) ==
    IF paths = <<>> THEN <<>>
    ELSE (IF Head(fl) THEN <<Head(paths)>> ELSE <<>>) \o Flagged(Tail(paths), Tail(fl))

IsBulk == op.kind = "bulk_get_file"

\* the filenames of the get_file call in progress: bulk_get_file calls
\* get_file once per filename
GetFilePaths == IF IsBulk THEN <<op.paths[bulki + 1]>> ELSE op.paths

\* lines 95-148: the local paths, the flags, the call of download_from_filename
get_file ==
    /\ mpc = "get_file"
    /\ LET fl == DecideFlags(files, GetFilePaths, op.overwrite, op.test_file) IN
         IF ~op.exist
         THEN /\ mpc' = "done"
              /\ ret' = "paths"
              /\ UNCHANGED <<flags, batch>>
         ELSE /\ flags' = fl
              /\ IF op.downloadit /\ \E i \in DOMAIN fl : fl[i]
                 THEN /\ batch' = Flagged(GetFilePaths, fl)
                      /\ mpc' = "dff"
                 ELSE /\ mpc' = "output"
                      /\ UNCHANGED batch
              /\ UNCHANGED ret
    /\ UNCHANGED <<fsvars, netvars, op, files0, todo, stack, cur, results, got, pool, bulki,
                   call, fileissue>>

Min(a, b) == IF a < b THEN a ELSE b

\* lines 335-379: the host, the urls, nprocess (np.min of maxnprocess and the
\* number of files, a TypeError when maxnprocess is None), the cookies, the
\* call of download_url; get_file passes overwrite=True, bulk_get_file
\* maxnprocess=1
\* (a variant that lets every host through)
HostAllowedAny(h) == h = h

HostAllowed(h) == h \in AllowedHosts

download_from_filename ==
    /\ mpc = "dff"
    /\ IF ~HostAllowed(op.host)
       THEN /\ mpc' = "raised"
            /\ ret' = "ValueError"
            /\ UNCHANGED <<netvars, call>>
       ELSE IF op.nprocess_none
       THEN /\ resolved' = TRUE
            /\ mpc' = "raised"
            /\ ret' = "TypeError"
            /\ UNCHANGED <<session, nlogin, ncred, nfetch, call>>
       ELSE LET c == get_cookie(session, FALSE) IN
            /\ resolved' = TRUE
            /\ session' = c.session
            /\ nlogin' = nlogin + c.logins
            /\ ncred' = ncred + c.loads
            /\ call' = [nprocess |-> Min(IF IsBulk THEN 1 ELSE op.nprocess, Len(batch)),
                        cookies |-> c.jar,
                        overwrite |-> IF op.kind = "download_from_filename"
                                      THEN op.overwrite ELSE TRUE,
                        own_pool |-> TRUE]
            /\ mpc' = "dlurl"
            /\ UNCHANGED <<nfetch, ret>>
    /\ UNCHANGED <<fsvars, op, files0, batch, todo, stack, cur, results, got, pool, bulki,
                   flags, fileissue>>

\* (a variant that hands the tasks out last first)
IndicesReversed(n) == [i \in 1..n |-> n + 1 - i]

Indices(n) == [i \in 1..n |-> i]

\* (a variant that takes None for a number below 1)
DegreeNoneIsZero(n, none) == IF none THEN 0 ELSE n

\* lines 955-956, 680-681: nprocess=None means 1
Degree(n, none) == IF none THEN 1 ELSE n

\* the nprocess download_url was called with: download_from_filename always
\* passes a number
DlDegree == Degree(call.nprocess, op.kind = "download_url" /\ op.nprocess_none)

\* lines 932-951: with a dask client the tasks are handed to it and their
\* futures returned; lines 955-961, 979-1019: else the degree of concurrency,
\* the pool
download_url ==
    /\ mpc = "dlurl"
    /\ IF op.client
       THEN /\ todo' = Indices(Len(batch))
            /\ pool' = "dask"
            /\ mpc' = "done"
            /\ ret' = "futures"
       ELSE IF DlDegree < 1
       THEN /\ mpc' = "raised"
            /\ ret' = "ValueError"
            /\ UNCHANGED <<todo, pool>>
       ELSE /\ todo' = Indices(Len(batch))
            /\ mpc' = IF DlDegree = 1 THEN "dl_seq" ELSE "dl_pool"
            /\ pool' = IF DlDegree = 1 THEN pool ELSE "open"
            /\ UNCHANGED ret
    /\ UNCHANGED <<fsvars, netvars, op, files0, batch, stack, cur, results, got, bulki,
                   flags, call, fileissue>>

\* lines 937-948, 965-977: the call of download_single_url of the sequential
\* loop and of the delayed tasks, with the caller's arguments
SeqTask(p) ==
    [DsuFrame(p, call.overwrite, call.cookies, op.filecheck, op.erasebad, op.write_hash)
        EXCEPT !.cutouts = op.cutouts, !.radec = op.radec,
               !.show_progress = IF op.kind = "bulk_get_file" THEN FALSE
                                 ELSE op.show_progress]

\* lines 937-949: the delayed tasks are built with show_progress=False
ClientTask(p) == [SeqTask(p) EXCEPT !.show_progress = FALSE]

\* lines 964-977: one download_single_url after the other, in the calling thread
DlSeqCall ==
    /\ mpc = "dl_seq"
    /\ stack[Main] = <<>>
    /\ todo # <<>>
    /\ stack' = [stack EXCEPT ![Main] = <<SeqTask(batch[Head(todo)])>>]
    /\ cur' = [cur EXCEPT ![Main] = Head(todo)]
    /\ todo' = Tail(todo)
    /\ UNCHANGED <<fsvars, netvars, op, files0, mpc, batch, results, got, pool, bulki, flags,
                   call, fileissue, ret>>

AfterDownload == IF op.kind \in {"get_file", "bulk_get_file"} THEN "output" ELSE "done"

DlSeqDone ==
    /\ mpc = "dl_seq"
    /\ stack[Main] = <<>>
    /\ todo = <<>>
    /\ mpc' = AfterDownload
    /\ ret' = IF AfterDownload = "done" THEN "None" ELSE ret
    /\ UNCHANGED <<fsvars, netvars, op, files0, batch, todo, stack, cur, results, got, pool,
                   bulki,
                   flags, call, fileissue>>

\* _download_ (lines 894-909) in a worker of the pool: the task's url, fileout,
\* session and overwrite; cookies, filecheck, erasebad and write_hash are not
\* passed on and take download_single_url's defaults
PoolSize == call.nprocess

\* lines 997-1001, 902-908: radec=None becomes [None, None] before it is
\* zipped into the tasks, and _download_ passes radec=[ra, dec]
PoolTask(p) ==
    [DsuFrame(p, call.overwrite, "none", TRUE, TRUE, FALSE)
        EXCEPT !.cutouts = op.cutouts,
               !.radec = IF op.radec = "None" THEN "NoneNone" ELSE op.radec]

DlWorkerTake(w) ==
    /\ op.kind \notin {"test_files", "run_full_filecheck"}
    /\ pool \in {"open", "leaked"}
    /\ w <= PoolSize
    /\ stack[w] = <<>>
    /\ todo # <<>>
    /\ stack' = [stack EXCEPT ![w] = <<PoolTask(batch[Head(todo)])>>]
    /\ cur' = [cur EXCEPT ![w] = Head(todo)]
    /\ todo' = Tail(todo)
    /\ UNCHANGED <<fsvars, netvars, op, files0, mpc, batch, results, got, pool, bulki, flags,
                   call, fileissue, ret>>

\* line 951: a worker of the dask client runs one of the delayed tasks
DlClientTake(w) ==
    /\ op.kind = "download_url"
    /\ pool = "dask"
    /\ stack[w] = <<>>
    /\ todo # <<>>
    /\ stack' = [stack EXCEPT ![w] = <<ClientTask(batch[Head(todo)])>>]
    /\ cur' = [cur EXCEPT ![w] = Head(todo)]
    /\ todo' = Tail(todo)
    /\ UNCHANGED <<fsvars, netvars, op, files0, mpc, batch, results, got, pool, bulki, flags,
                   call, fileissue, ret>>

\* line 1022: imap_unordered hands over the results as the workers complete
\* them; the result of a task that raised is re-raised in the calling thread,
\* which leaves download_url without closing the pool
DlCollect ==
    /\ mpc = "dl_pool"
    /\ \E r \in results :
         /\ \A k \in DOMAIN got : got[k] # r.i
         /\ got' = Append(got, r.i)
         /\ IF r.exc # "none"
            THEN /\ mpc' = "raised"
                 /\ ret' = r.exc
                 /\ pool' = IF call.own_pool THEN "leaked" ELSE pool
            ELSE UNCHANGED <<mpc, ret, pool>>
    /\ UNCHANGED <<fsvars, netvars, op, files0, batch, todo, stack, cur, results, bulki,
                   flags, call, fileissue>>

\* lines 1026-1027
DlPoolDone ==
    /\ mpc = "dl_pool"
    /\ Len(got) = Len(batch)
    /\ pool' = IF call.own_pool THEN "closed" ELSE pool
    /\ mpc' = AfterDownload
    /\ ret' = IF AfterDownload = "done" THEN "None" ELSE ret
    /\ UNCHANGED <<fsvars, netvars, op, files0, batch, todo, stack, cur, results, got, bulki,
                   flags, call, fileissue>>

\* A pool nobody closed and nobody holds any more is terminated when it is
\* collected: its workers are killed where they stand and the tasks still
\* queued are never run.
PoolTerminate ==
    /\ pool = "leaked"
    /\ pool' = "terminated"
    /\ todo' = <<>>
    /\ stack' = [e \in Execs |-> <<>>]
    /\ cur' = [e \in Execs |-> 0]
    /\ UNCHANGED <<fsvars, netvars, op, files0, mpc, batch, results, got, bulki, flags, call,
                   ret, fileissue>>

\* lines 153-165: the local paths are returned, downloaded or not
GetFileOutput ==
    /\ mpc = "output"
    /\ IF IsBulk
       THEN /\ bulki' = bulki + 1
            /\ mpc' = IF bulki + 1 < Len(op.paths) THEN "get_file" ELSE "bulk_close"
            /\ UNCHANGED ret
       ELSE /\ mpc' = "done"
            /\ ret' = "paths"
            /\ UNCHANGED bulki
    /\ results' = IF IsBulk THEN {} ELSE results
    /\ got' = IF IsBulk THEN <<>> ELSE got
    /\ UNCHANGED <<fsvars, netvars, op, files0, batch, todo, stack, cur, pool, flags, call,
                   fileissue>>

\* ---------------------------------------------------------- bulk_get_file
\* lines 215-225: open_irsa_session (get_cookie with update=True on a new
\* session), then the delayed get_file calls, computed here one after the
\* other, in the order of the filenames
\* Without a client "persist" runs each task where it stands, as "computed"
\* does. With a client the tasks are handed to it (client.persist, or
\* client.compute at line 238, which comes before as_dask is compared with
\* "futures" and "gathered" and before the ValueError of line 246); without
\* one, line 238 is None.compute, an AttributeError.
\* lines 217-218: "gathered" without a client is "computed"
BulkMode == IF ~op.client /\ op.as_dask = "gathered" THEN "computed" ELSE op.as_dask

BulkReturns(pc, r) ==
    /\ mpc' = pc
    /\ ret' = r
    /\ UNCHANGED <<todo, pool>>

BulkDispatch(pc, r) ==
    /\ todo' = Indices(Len(op.paths))
    /\ pool' = "dask"
    /\ mpc' = pc
    /\ ret' = r

bulk_get_file ==
    /\ mpc = "bulk"
    /\ LET c == get_cookie("fresh", TRUE) IN
         /\ session' = c.session
         /\ nlogin' = nlogin + c.logins
         /\ ncred' = ncred + c.loads
    /\ CASE BulkMode = "delayed" -> BulkReturns("done", "delayed+session")
         [] BulkMode = "computed" -> BulkReturns("get_file", ret)
         [] BulkMode = "persist" /\ ~op.client -> BulkReturns("get_file", ret)
         [] BulkMode = "persist" /\ op.client -> BulkDispatch("done", "persisted+session")
         [] BulkMode \notin {"delayed", "computed", "persist"} /\ ~op.client ->
                BulkReturns("raised", "AttributeError")
         [] BulkMode = "futures" /\ op.client -> BulkDispatch("done", "futures+session")
         [] BulkMode = "gathered" /\ op.client -> BulkDispatch("bulk_gather", ret)
         [] OTHER -> BulkDispatch("raised", "ValueError")
    /\ UNCHANGED <<fsvars, nfetch, resolved, op, files0, batch, stack, cur, results,
                   got, bulki, flags, call, fileissue>>

\* lines 227-230, 232-237: after "computed" the session is closed and the
\* results are returned; after "persist" the session is returned open
BulkClose ==
    /\ mpc = "bulk_close"
    /\ session' = IF BulkMode = "persist" THEN session ELSE "closed"
    /\ mpc' = "done"
    /\ ret' = IF BulkMode = "persist" THEN "persisted+session" ELSE "paths"
    /\ UNCHANGED <<fsvars, nlogin, ncred, nfetch, resolved, op, files0, batch, todo, stack, cur,
                   results, got,
                   pool, bulki, flags, call, fileissue>>

\* the fetch of one get_file(filename, session=session, show_progress=False,
\* maxnprocess=1) task: download_from_filename finds cookies in the session
\* and passes cookies=None, get_file passes overwrite=True
BulkTask(p) == [DsuFrame(p, TRUE, "none", TRUE, TRUE, FALSE) EXCEPT !.show_progress = FALSE]

\* a worker of the client runs one get_file task (lines 95-165, 335-379 with
\* one filename): the flag, the host, then the fetch of a flagged file
BulkClientTake(w) ==
    /\ IsBulk
    /\ pool = "dask"
    /\ stack[w] = <<>>
    /\ todo # <<>>
    /\ todo' = Tail(todo)
    /\ LET i == Head(todo)
           p == op.paths[i]
       IN  IF op.exist /\ op.downloadit /\ FlagToDl(files, p, op.overwrite, op.test_file)
           THEN IF HostAllowed(op.host)
                THEN /\ stack' = [stack EXCEPT ![w] = <<BulkTask(p)>>]
                     /\ cur' = [cur EXCEPT ![w] = i]
                     /\ resolved' = TRUE
                     /\ UNCHANGED results
                ELSE /\ results' = results \cup {[i |-> i, exc |-> "ValueError", val |-> "none"]}
                     /\ UNCHANGED <<stack, cur, resolved>>
           ELSE /\ results' = results \cup {[i |-> i, exc |-> "none", val |-> "paths"]}
                /\ UNCHANGED <<stack, cur, resolved>>
    /\ UNCHANGED <<fsvars, session, nlogin, ncred, nfetch, op, files0, mpc, batch, got, pool,
                   bulki, flags, call, fileissue, ret>>

\* lines 241-244: client.gather waits for every task and raises what a task
\* raised; otherwise the session is closed and the results are returned
BulkGather ==
    /\ mpc = "bulk_gather"
    /\ todo = <<>>
    /\ \A w \in Workers : stack[w] = <<>>
    /\ IF \E r \in results : r.exc # "none"
       THEN /\ \E r \in results : r.exc # "none" /\ ret' = r.exc
            /\ mpc' = "raised"
            /\ UNCHANGED session
       ELSE /\ session' = "closed"
            /\ mpc' = "done"
            /\ ret' = "paths"
    /\ UNCHANGED <<fsvars, nlogin, ncred, nfetch, resolved, op, files0, batch, todo, stack, cur,
                   results, got, pool, bulki, flags, call, fileissue>>

\* -------------------------------------------------------------- test_files
RECURSIVE GlobFiles(_, _, _)
\* get_localfiles (lines 577-582): the files on disk whose name ends in the
\* extension asked for
GlobFiles(fs, paths, ext) ==
    IF paths = <<>> THEN <<>>
    ELSE (IF os_path_isfile(fs, Head(paths)) /\ Head(paths)[Len(Head(paths))] = ext
          THEN <<Head(paths)>> ELSE <<>>) \o GlobFiles(fs, Tail(paths), ext)

\* lines 629-640
run_full_filecheck ==
    /\ mpc = "rff"
    /\ batch' = GlobFiles(files, op.paths, op.extension)
    /\ mpc' = "tf_start"
    /\ UNCHANGED <<fsvars, netvars, op, files0, todo, stack, cur, results, got, pool, bulki,
                   flags,
                   call, fileissue, ret>>

\* lines 680-687, 706
test_files ==
    /\ mpc = "tf_start"
    /\ IF Degree(op.nprocess, op.nprocess_none) < 1
       THEN /\ mpc' = "raised"
            /\ ret' = "ValueError"
            /\ UNCHANGED <<todo, pool>>
       ELSE /\ todo' = Indices(Len(batch))
            /\ mpc' = IF Degree(op.nprocess, op.nprocess_none) = 1 THEN "tf_seq" ELSE "tf_pool"
            /\ pool' = IF Degree(op.nprocess, op.nprocess_none) = 1 THEN pool ELSE "open"
            /\ UNCHANGED ret
    /\ UNCHANGED <<fsvars, netvars, op, files0, batch, stack, cur, results, got, bulki,
                   flags, call,
                   fileissue>>

\* lines 688-692: _test_file_ on each file in turn, in the calling thread
TfSeqCall ==
    /\ mpc = "tf_seq"
    /\ stack[Main] = <<>>
    /\ todo # <<>>
    /\ stack' = [stack EXCEPT ![Main] =
                   <<TfFrame(batch[Head(todo)], op.erasebad, FALSE, op.redownload,
                             op.write_hash)>>]
    /\ cur' = [cur EXCEPT ![Main] = Head(todo)]
    /\ todo' = Tail(todo)
    /\ UNCHANGED <<fsvars, netvars, op, files0, mpc, batch, results, got, pool, bulki, flags,
                   call,
                   fileissue, ret>>

TfSeqDone ==
    /\ mpc = "tf_seq"
    /\ stack[Main] = <<>>
    /\ todo = <<>>
    /\ mpc' = "tf_finish"
    /\ UNCHANGED <<fsvars, netvars, op, files0, batch, todo, stack, cur, results, got, pool,
                   bulki,
                   flags, call, fileissue, ret>>

\* _test_file_multiprocess_ (lines 753-756) in a worker of the pool: the file
\* and erasebad; fromdl=False, redownload=False, write_hash its default
TfWorkerTake(w) ==
    /\ mpc = "tf_pool"
    /\ pool = "open"
    /\ w <= op.nprocess
    /\ stack[w] = <<>>
    /\ todo # <<>>
    /\ stack' = [stack EXCEPT ![w] =
                   <<TfFrame(batch[Head(todo)], op.erasebad, FALSE, FALSE, FALSE)>>]
    /\ cur' = [cur EXCEPT ![w] = Head(todo)]
    /\ todo' = Tail(todo)
    /\ UNCHANGED <<fsvars, netvars, op, files0, mpc, batch, results, got, pool, bulki, flags,
                   call,
                   fileissue, ret>>

\* lines 706-714: imap hands over the verdicts in the order of the input; the
\* result of a task that raised is re-raised in the calling thread, and leaving
\* the with block terminates the pool
TfCollect ==
    /\ mpc = "tf_pool"
    /\ \E r \in results :
         /\ r.i = Len(got) + 1
         /\ got' = Append(got, r.i)
         /\ IF r.exc # "none"
            THEN /\ mpc' = "raised"
                 /\ ret' = r.exc
                 /\ pool' = "terminated"
                 /\ todo' = <<>>
                 /\ stack' = [e \in Execs |-> <<>>]
                 /\ cur' = [e \in Execs |-> 0]
            ELSE UNCHANGED <<mpc, ret, pool, todo, stack, cur>>
    /\ UNCHANGED <<fsvars, netvars, op, files0, batch, results, bulki, flags, call, fileissue>>

TfPoolDone ==
    /\ mpc = "tf_pool"
    /\ Len(got) = Len(batch)
    /\ pool' = "terminated"
    /\ mpc' = "tf_finish"
    /\ UNCHANGED <<fsvars, netvars, op, files0, batch, todo, stack, cur, results, got, bulki,
                   flags,
                   call, fileissue, ret>>

\* (a variant that takes the verdicts in the reverse of the input order)
VerdictReversed(i) == (CHOOSE r \in results : r.i = Len(batch) + 1 - i).val

Verdict(i) == (CHOOSE r \in results : r.i = i).val

RECURSIVE FileIssue(_)
\* lines 688-692, 713-714: the files whose check returned False
FileIssue(is) ==
    IF is = <<>> THEN <<>>
    ELSE (IF Verdict(Head(is)) = "bad" THEN <<batch[Head(is)]>> ELSE <<>>)
         \o FileIssue(Tail(is))

\* lines 719-750: with files that failed and redownload, download_url is called
\* with session=session, a name test_files never binds; the list is returned
\* from inside the if, so a batch without failures returns None
TfFinish ==
    /\ mpc = "tf_finish"
    /\ LET bad == FileIssue(got) IN
         /\ fileissue' = bad
         /\ IF bad = <<>>
            THEN /\ mpc' = "done"
                 /\ ret' = "None"
            ELSE IF op.redownload
                 THEN /\ mpc' = "raised"
                      /\ ret' = "NameError"
                 ELSE /\ mpc' = "done"
                      /\ ret' = "fileissue"
    /\ UNCHANGED <<fsvars, netvars, op, files0, batch, todo, stack, cur, results, got, pool,
                   bulki,
                   flags, call>>

\* ------------------------------------------------------------------- Spec
GetFileOps(B) ==
    {[NoOpt EXCEPT !.kind = "get_file", !.paths = b, !.overwrite = ow, !.test_file = tf,
                   !.downloadit = v[1], !.exist = v[2], !.host = v[3],
                   !.nprocess = v[4], !.session0 = v[5]] :
        b \in B, ow \in BOOLEAN, tf \in BOOLEAN,
        v \in {<<TRUE, TRUE, "irsa", 1, "none">>, <<TRUE, TRUE, "irsa", 1, "cookies">>,
               <<TRUE, TRUE, "irsa", MaxWorkers, "none">>,
               <<TRUE, TRUE, "irsa", MaxWorkers, "cookies">>,
               <<FALSE, TRUE, "irsa", 1, "none">>, <<TRUE, FALSE, "irsa", 1, "none">>,
               <<TRUE, TRUE, "other", 1, "none">>}}

BulkOps(B) ==
    {[NoOpt EXCEPT !.kind = "bulk_get_file", !.paths = b, !.overwrite = ow, !.test_file = tf,
                   !.as_dask = v[1], !.host = v[2]] :
        b \in B, ow \in BOOLEAN, tf \in BOOLEAN,
        v \in {<<"delayed", "irsa">>, <<"computed", "irsa">>, <<"computed", "other">>}}

\* bulk_get_file in each of its modes, with and without a client
BulkModeOps(B) ==
    {[NoOpt EXCEPT !.kind = "bulk_get_file", !.paths = b, !.overwrite = ow,
                   !.as_dask = m, !.client = cl] :
        b \in B, ow \in BOOLEAN, cl \in BOOLEAN,
        m \in {"delayed", "computed", "persist", "futures", "gathered", "other"}}

DffOps(B) ==
    {[NoOpt EXCEPT !.kind = "download_from_filename", !.paths = b, !.overwrite = ow,
                   !.host = v[1], !.nprocess = v[2], !.session0 = v[3]] :
        b \in B, ow \in BOOLEAN,
        v \in {<<"irsa", 1, "none">>, <<"irsa", 1, "fresh">>, <<"irsa", 1, "cookies">>,
               <<"irsa", MaxWorkers, "fresh">>, <<"ccin2p3", 1, "none">>,
               <<"other", 1, "none">>, <<"other", MaxWorkers, "cookies">>}}
    \cup {[NoOpt EXCEPT !.kind = "download_from_filename", !.paths = b,
                        !.nprocess = 0, !.nprocess_none = TRUE] : b \in B}
    \cup {[NoOpt EXCEPT !.kind = "download_from_filename", !.paths = b,
                        !.session0 = s0, !.auth = "rejected"] :
             b \in B, s0 \in {"none", "fresh"}}

\* filecheck, erasebad, write_hash
CheckOpts == {<<TRUE, TRUE, FALSE>>, <<TRUE, FALSE, FALSE>>, <<FALSE, TRUE, FALSE>>,
              <<TRUE, TRUE, TRUE>>}

DlUrlOps(B) ==
    {[NoOpt EXCEPT !.kind = "download_url", !.paths = b, !.overwrite = ow,
                   !.nprocess = v[1], !.own_pool = v[2], !.filecheck = c[1],
                   !.erasebad = c[2], !.write_hash = c[3]] :
        b \in B, ow \in BOOLEAN, c \in CheckOpts,
        v \in {<<1, TRUE>>, <<MaxWorkers, TRUE>>, <<MaxWorkers, FALSE>>}}
    \cup {[NoOpt EXCEPT !.kind = "download_url", !.paths = b, !.nprocess = 0] : b \in B}
    \cup {[NoOpt EXCEPT !.kind = "download_url", !.paths = b, !.nprocess = v[1],
                        !.client = v[2], !.cutouts = v[3], !.radec = v[4]] :
             b \in B,
             v \in {<<1, FALSE, TRUE, "None">>, <<1, FALSE, TRUE, "given">>,
                    <<MaxWorkers, FALSE, TRUE, "None">>, <<MaxWorkers, FALSE, TRUE, "given">>,
                    <<1, TRUE, TRUE, "None">>, <<1, TRUE, FALSE, "None">>,
                    <<0, TRUE, FALSE, "None">>}}
    \cup {[NoOpt EXCEPT !.kind = "download_url", !.paths = b, !.overwrite = ow,
                        !.nprocess = 0, !.nprocess_none = TRUE] :
             b \in B, ow \in BOOLEAN}
    \cup {[NoOpt EXCEPT !.kind = "download_url", !.paths = b, !.overwrite = ow,
                        !.nprocess = n, !.show_progress = FALSE] :
             b \in B, ow \in BOOLEAN, n \in {1, MaxWorkers}}

TestFilesOps(B) ==
    {[NoOpt EXCEPT !.kind = "test_files", !.paths = b, !.erasebad = eb, !.redownload = rd,
                   !.write_hash = wh, !.nprocess = n] :
        b \in B, eb \in BOOLEAN, rd \in BOOLEAN, wh \in BOOLEAN, n \in 0..MaxWorkers}
    \cup {[NoOpt EXCEPT !.kind = "test_files", !.paths = b, !.erasebad = eb,
                        !.nprocess = 0, !.nprocess_none = TRUE] :
             b \in B, eb \in BOOLEAN}

FullCheckOps ==
    {[NoOpt EXCEPT !.kind = "run_full_filecheck", !.paths = PathList, !.extension = x,
                   !.erasebad = eb, !.redownload = rd, !.nprocess = n] :
        x \in {".fits", ".txt"}, eb \in BOOLEAN, rd \in BOOLEAN, n \in 1..MaxWorkers}

StartPc(o) ==
    CASE o.kind = "get_file" -> "get_file"
      [] o.kind = "bulk_get_file" -> "bulk"
      [] o.kind = "download_from_filename" -> "dff"
      [] o.kind = "download_url" -> "dlurl"
      [] o.kind = "run_full_filecheck" -> "rff"
      [] OTHER -> "tf_start"

InitWith(ops) ==
    /\ op \in ops
    /\ files \in InitFiles(Range(op.paths))
    /\ files0 = files
    /\ inode = [p \in Paths |-> 0]
    /\ hashes \in InitHashes(Range(op.paths), files)
    /\ session = op.session0
    /\ nlogin = 0
    /\ ncred = 0
    /\ nfetch = [p \in Paths |-> 0]
    /\ resolved = FALSE
    /\ mpc = StartPc(op)
    /\ batch = IF op.kind \in {"get_file", "bulk_get_file", "run_full_filecheck"}
               THEN <<>> ELSE op.paths
    /\ todo = <<>>
    /\ stack = [e \in Execs |-> <<>>]
    /\ cur = [e \in Execs |-> 0]
    /\ results = {}
    /\ got = <<>>
    /\ pool = IF op.own_pool THEN "none" ELSE "open"
    /\ bulki = 0
    /\ flags = <<>>
    /\ call = [nprocess |-> op.nprocess, cookies |-> "none", overwrite |-> op.overwrite,
               own_pool |-> op.own_pool]
    /\ fileissue = <<>>
    /\ ret = "none"

DownloadOps(B) == GetFileOps(B) \cup BulkOps(B) \cup DffOps(B) \cup DlUrlOps(B)

Init == InitWith(DownloadOps(DistinctBatches))

ExecStep(e) ==
    \/ DsuStart(e)
    \/ DsuRequest(e)
    \/ DsuOpen(e)
    \/ DsuWrite(e)
    \/ TfTest(e)
    \/ TfIssue(e)

Next ==
    \/ get_file
    \/ download_from_filename
    \/ download_url
    \/ DlSeqCall
    \/ DlSeqDone
    \/ \E w \in Workers : DlWorkerTake(w)
    \/ \E w \in Workers : DlClientTake(w)
    \/ DlCollect
    \/ DlPoolDone
    \/ PoolTerminate
    \/ GetFileOutput
    \/ bulk_get_file
    \/ BulkClose
    \/ \E e \in Execs : ExecStep(e)

\* the fetch side: get_file, bulk_get_file, download_from_filename, download_url
Spec == Init /\ [][Next]_vars

InitCheck == InitWith(TestFilesOps(DistinctBatches) \cup FullCheckOps)

NextCheck ==
    \/ run_full_filecheck
    \/ test_files
    \/ TfSeqCall
    \/ TfSeqDone
    \/ \E w \in Workers : TfWorkerTake(w)
    \/ TfCollect
    \/ TfPoolDone
    \/ TfFinish
    \/ \E e \in Execs : ExecStep(e)

\* the cache check: test_files, run_full_filecheck
SpecCheck == InitCheck /\ [][NextCheck]_vars

InitBulk == InitWith(BulkOps(DistinctBatches) \cup BulkModeOps(DistinctBatches))

NextBulk ==
    \/ bulk_get_file
    \/ get_file
    \/ download_from_filename
    \/ download_url
    \/ DlSeqCall
    \/ DlSeqDone
    \/ GetFileOutput
    \/ BulkClose
    \/ \E w \in Workers : BulkClientTake(w)
    \/ BulkGather
    \/ \E e \in Execs : ExecStep(e)

\* bulk_get_file alone
SpecBulk == InitBulk /\ [][NextBulk]_vars

\* download_url on batches that may name a destination more than once, with a
\* remote that may answer anything or that serves every file whole and valid
DupOps ==
    {[NoOpt EXCEPT !.kind = "download_url", !.paths = b, !.overwrite = ow,
                   !.nprocess = n, !.remote = rm] :
        b \in AnyBatches, ow \in BOOLEAN, n \in {1, MaxWorkers}, rm \in {"any", "valid"}}

InitDup == InitWith(DupOps)

NextDup ==
    \/ download_url
    \/ DlSeqCall
    \/ DlSeqDone
    \/ \E w \in Workers : DlWorkerTake(w)
    \/ DlCollect
    \/ DlPoolDone
    \/ PoolTerminate
    \/ \E e \in Execs : ExecStep(e)

SpecDup == InitDup /\ [][NextDup]_vars

\* --------------------------------------------------------------- hash tools
\* The four functions called on their own, in any order, on files and sidecars
\* in any state; call is the last call made, ret what it returned or raised.
HashCall(fn, p, r) ==
    /\ mpc = "hash"
    /\ call' = [fn |-> fn, p |-> p]
    /\ ret' = r
    /\ UNCHANGED <<files, inode, netvars, op, files0, mpc, batch, todo, stack, cur, results, got,
                   pool, bulki, flags, fileissue>>

\* lines 1188-1196, called by itself: open(fname, "rb") needs the file
HashCalculate(p) ==
    /\ HashCall("calculate_hash", p,
                IF os_path_isfile(files, p) THEN calculate_hash(files[p])
                ELSE <<"FileNotFoundError">>)
    /\ UNCHANGED hashes

\* lines 1198-1203: the digest, then the sidecar written anew
calculate_and_write_hash(p) ==
    /\ HashCall("calculate_and_write_hash", p,
                IF os_path_isfile(files, p) THEN <<"None">> ELSE <<"FileNotFoundError">>)
    /\ hashes' = IF os_path_isfile(files, p)
                 THEN [hashes EXCEPT ![p] = calculate_hash(files[p])]
                 ELSE hashes

\* lines 1205-1209: the text of the sidecar
read_hash(p) ==
    /\ HashCall("read_hash", p,
                IF hash_for_file_exists(hashes, p) THEN hashes[p]
                ELSE <<"FileNotFoundError">>)
    /\ UNCHANGED hashes

\* lines 1211-1219: hash_fname is bound nowhere, neither in the function nor in
\* the module, so that the first statement raises NameError
compare_hash(p) ==
    /\ HashCall("compare_hash", p, <<"NameError">>)
    /\ UNCHANGED hashes

InitHash ==
    /\ op = [NoOpt EXCEPT !.kind = "hash"]
    /\ files \in [Paths -> {Absent, "valid", "corrupt"}]
    /\ files0 = files
    /\ inode = [p \in Paths |-> 0]
    /\ hashes \in [Paths -> {NoHash, calculate_hash("valid"), calculate_hash("corrupt")}]
    /\ session = "none"
    /\ nlogin = 0
    /\ ncred = 0
    /\ nfetch = [p \in Paths |-> 0]
    /\ resolved = FALSE
    /\ mpc = "hash"
    /\ batch = <<>>
    /\ todo = <<>>
    /\ stack = [e \in Execs |-> <<>>]
    /\ cur = [e \in Execs |-> 0]
    /\ results = {}
    /\ got = <<>>
    /\ pool = "none"
    /\ bulki = 0
    /\ flags = <<>>
    /\ call = [fn |-> "none", p |-> F1]
    /\ fileissue = <<>>
    /\ ret = <<"none">>

NextHash ==
    \/ \E p \in Paths : HashCalculate(p)
    \/ \E p \in Paths : calculate_and_write_hash(p)
    \/ \E p \in Paths : read_hash(p)
    \/ \E p \in Paths : compare_hash(p)

SpecHash == InitHash /\ [][NextHash]_vars

\* download_url and test_files alone, in each of their modes
InitDegree == InitWith(DlUrlOps(DistinctBatches) \cup TestFilesOps(DistinctBatches))

NextDegree ==
    \/ download_url
    \/ DlSeqCall
    \/ DlSeqDone
    \/ \E w \in Workers : DlWorkerTake(w)
    \/ \E w \in Workers : DlClientTake(w)
    \/ DlCollect
    \/ DlPoolDone
    \/ PoolTerminate
    \/ test_files
    \/ TfSeqCall
    \/ TfSeqDone
    \/ \E w \in Workers : TfWorkerTake(w)
    \/ TfCollect
    \/ TfPoolDone
    \/ TfFinish
    \/ \E e \in Execs : ExecStep(e)

SpecDegree == InitDegree /\ [][NextDegree]_vars

\* the cache check of a list that may name the same file more than once
InitCheckDup == InitWith(TestFilesOps(AnyBatches) \cup FullCheckOps)

SpecCheckDup == InitCheckDup /\ [][NextCheck]_vars

\* ------------------------------------------------------------- properties
\* the step of executor e on its own stack (not its death with the pool)
StepOf(e) == stack'[e] # stack[e] /\ pool' = pool

NoRequest == nlogin = 0 /\ \A p \in Paths : nfetch[p] = 0

Done(i, exc, v) == [i |-> i, exc |-> exc, val |-> v]

\* C1: a download_single_url call whose destination exists and whose overwrite
\* is false ends at once as "skipped": it sends no login and no request,
\* changes neither the file nor its sidecar, and runs no check.
C1_SkipLeavesEverything ==
    [][\A e \in Execs :
         (Running(e, "dsu", "start") /\ ~Top(e).overwrite
            /\ os_path_isfile(files, Top(e).p) /\ StepOf(e))
         => /\ stack'[e] = <<>>
            /\ Done(cur[e], "none", "skipped") \in results'
            /\ UNCHANGED <<files, hashes, session, nlogin, nfetch>>]_vars

C1_Witness ==
    \E r \in results :
        /\ r = Done(r.i, "none", "skipped")
        /\ files[batch[r.i]] = "corrupt"
        /\ nfetch[batch[r.i]] = 0

\* the call is get_file or bulk_get_file with overwrite and test_file false,
\* and every local file it names exists
CachedHit ==
    /\ op.kind \in {"get_file", "bulk_get_file"}
    /\ ~op.overwrite
    /\ ~op.test_file
    /\ \A p \in Range(op.paths) : os_path_isfile(files0, p)

\* C2 as stated: on a cached hit get_file and bulk_get_file send nothing over
\* the network, login included.
C2_CachedHitNoNetwork == CachedHit => NoRequest

\* C2: on a cached hit no url is built, no file is requested and no task is
\* started; get_file sends no login either and returns the local paths, while
\* bulk_get_file sends the two logins of open_irsa_session when it starts and
\* nothing else.
C2_CachedHitNoFetch ==
    CachedHit =>
        /\ ~resolved
        /\ \A p \in Paths : nfetch[p] = 0
        /\ results = {} /\ \A e \in Execs : stack[e] = <<>>
        /\ IF IsBulk
           THEN nlogin = (IF mpc = "bulk" THEN 0 ELSE 2)
           ELSE nlogin = 0 /\ session = op.session0
        /\ mpc # "raised"
        /\ (mpc = "done" /\ ~(IsBulk /\ op.as_dask = "delayed")) => ret = "paths"

C2_Witness ==
    /\ CachedHit /\ IsBulk /\ op.as_dask = "computed"
    /\ Len(op.paths) = MaxBatch
    /\ mpc = "done" /\ ret = "paths"
    /\ nlogin = 2

\* the reference predicate: overwrite, or the file is absent, or test_file is
\* set and the file is of a recognized extension and fails the integrity test
ReferenceFlag(fs, p, overwrite, test_file) ==
    \/ overwrite
    \/ ~os_path_isfile(fs, p)
    \/ (test_file /\ Recognized(p) /\ ~ParseOK(fs[p]))

\* C3: the flags get_file computes for its paths are those of the reference
\* predicate, path by path.
C3_FlagsMatchReference ==
    [][(mpc = "get_file" /\ mpc' # "get_file" /\ op.exist)
       => flags' = [i \in DOMAIN GetFilePaths |->
                      ReferenceFlag(files, GetFilePaths[i], op.overwrite, op.test_file)]]_vars

\* download_url ran its batch on a pool, has returned or raised, and nothing
\* of the batch is queued or running any more
PoolBatchOver ==
    /\ op.kind \in {"get_file", "download_from_filename", "download_url"}
    /\ call.nprocess > 1
    /\ mpc \in {"done", "output", "raised"}
    /\ ret # "ValueError"
    /\ todo = <<>>
    /\ \A w \in Workers : stack[w] = <<>>

\* C4: a batch of N tasks dispatched on the worker pool ends with every task
\* executed exactly once, N outcomes in all.
C4_EveryTaskExecutedOnce ==
    PoolBatchOver =>
        \A i \in 1..Len(batch) : Cardinality({r \in results : r.i = i}) = 1

\* C5: a download_single_url call whose response has a non-success status
\* writes nothing to its destination (the file is neither created nor
\* truncated), ends with the http_error outcome and raises nothing.
C5_HttpErrorWritesNothing ==
    [][\A e \in Execs :
         (stack[e] # <<>> /\ stack[e][1].fn = "dsu" /\ StepOf(e)) =>
           LET f == stack[e][1]
               ended == stack'[e] = <<>>
           IN  /\ (f.pc = "request" /\ ~ended /\ stack'[e][1].resp = "error")
                    => /\ stack'[e][1].pc = "check"
                       /\ stack'[e][1].out = "http_error"
                       /\ files' = files
               /\ (f.pc = "request" /\ ended)
                    => /\ Done(cur[e], "none", "http_error") \in results'
                       /\ files' = files
               /\ f.resp = "error"
                    => /\ f.pc = "check"
                       /\ files'[f.p] \in {files[f.p], Absent}
                       /\ ended => Done(cur[e], "none", "http_error") \in results']_vars

C5_Witness ==
    \E r \in results :
        /\ r = Done(r.i, "none", "http_error")
        /\ op.overwrite
        /\ files0[batch[r.i]] = "valid"
        /\ files[batch[r.i]] = "valid"
        /\ nfetch[batch[r.i]] = 1

\* executor e is about to check, for test_files, a file of a recognized format
\* that does not parse and has no sidecar
ChecksCorrupt(e) ==
    /\ Running(e, "tf", "start")
    /\ Len(stack[e]) = 1
    /\ IsFits(Top(e).p) \/ IsText(Top(e).p)
    /\ hashes[Top(e).p] = NoHash
    /\ os_path_isfile(files, Top(e).p)
    /\ ~ParseOK(files[Top(e).p])

\* executor e ends a check that found its file corrupt
EndsCorrupt(e) ==
    /\ stack[e] # <<>>
    /\ stack[e][1].fn = "tf"
    /\ stack[e][1].out = "bad"
    /\ StepOf(e)
    /\ stack'[e] = <<>>

\* the verdict of that check is "bad", and the file is gone if erasebad, else
\* still holds what the parse read
CorruptOutcome(e) ==
    /\ Done(cur[e], "none", "bad") \in results'
    /\ files'[stack[e][1].p] = IF stack[e][1].erasebad THEN Absent ELSE stack[e][1].body

\* test_files returns the list of the files found corrupt
ReturnsCorrupt ==
    /\ mpc' = "done"
    /\ ret' = "fileissue"
    /\ \A i \in DOMAIN batch :
         Done(i, "none", "bad") \in results => batch[i] \in Range(fileissue')

\* C6 as stated: a malformed file of a recognized format without a sidecar is
\* found corrupt by _test_file_, which returns False; after the check the file
\* is absent if erasebad, present and unchanged if not.
C6_CorruptReportedAndErased ==
    [][\A e \in Execs :
         /\ (ChecksCorrupt(e) /\ StepOf(e)) => Running(e, "tf", "issue")'
         /\ EndsCorrupt(e) => CorruptOutcome(e)]_vars

\* C6: the same for the checks run with redownload=False, whose failures
\* test_files returns in its list; with redownload the file is fetched again to
\* the same path before _test_file_ returns.
C6_CorruptReportedNoRedownload ==
    [][/\ \A e \in Execs :
            /\ (ChecksCorrupt(e) /\ StepOf(e)) => Running(e, "tf", "issue")'
            /\ (EndsCorrupt(e) /\ ~stack[e][1].redownload) => CorruptOutcome(e)
       /\ (mpc = "tf_finish" /\ mpc' # mpc /\ ~op.redownload
             /\ \E r \in results : r.val = "bad")
            => ReturnsCorrupt]_vars

C6_Witness ==
    /\ op.erasebad /\ ~op.redownload
    /\ mpc = "done" /\ ret = "fileissue"
    /\ \E i \in DOMAIN batch :
         /\ IsText(batch[i])
         /\ files0[batch[i]] = "corrupt"
         /\ files[batch[i]] = Absent
         /\ batch[i] \in Range(fileissue)

\* C7: while a file of a recognized format has a sidecar, _test_file_ returns
\* True for it in one step, whatever the file holds: no parse, no hash, no
\* deletion, no re-download.
C7_SidecarTrusted ==
    [][\A e \in Execs :
         (Running(e, "tf", "start") /\ (IsFits(Top(e).p) \/ IsText(Top(e).p))
            /\ hashes[Top(e).p] # NoHash /\ StepOf(e))
         => /\ stack'[e] = <<>>
            /\ Len(stack[e]) = 1 => Done(cur[e], "none", "good") \in results'
            /\ UNCHANGED <<files, hashes, session, nlogin, nfetch>>]_vars

C7_Witness ==
    \E r \in results :
        /\ r = Done(r.i, "none", "good")
        /\ hashes[batch[r.i]] # NoHash
        /\ files[batch[r.i]] = "corrupt"
        /\ op.erasebad

\* p was, when the check was called, a malformed file of a recognized format
\* under a known archive directory, without a sidecar
TruncatedKnown(p) ==
    /\ IsFits(p) \/ IsText(p)
    /\ files0[p] = "corrupt"
    /\ hashes[p] = NoHash
    /\ _localsource_to_source_(p).url # "None"

\* C8: test_files or run_full_filecheck with erasebad and redownload, over a
\* truncated file of a known host without a sidecar, completes and returns a
\* list that holds the path, after exactly one new download of its url.
C8_RemediationCompletes ==
    (/\ op.kind \in {"test_files", "run_full_filecheck"}
     /\ op.erasebad /\ op.redownload /\ op.nprocess >= 1
     /\ mpc \in {"done", "raised"})
    => \A i \in DOMAIN batch :
         TruncatedKnown(batch[i])
         => /\ mpc = "done"
            /\ batch[i] \in Range(fileissue)
            /\ nfetch[batch[i]] = 1

\* C9: the erase of _fileissue_ never fails because the file is already
\* absent: no check ends with FileNotFoundError, in a worker or in the caller.
C9_EraseNeverFails ==
    /\ \A r \in results : r.exc # "FileNotFoundError"
    /\ ret # "FileNotFoundError"

\* nothing of a download has happened: no url built, no file requested, no
\* task started, the files as they were, download_url not entered
NothingDownloaded ==
    /\ ~resolved
    /\ \A p \in Paths : nfetch[p] = 0
    /\ files = files0
    /\ results = {} /\ todo = <<>> /\ \A e \in Execs : stack[e] = <<>>
    /\ mpc \notin {"dlurl", "dl_seq", "dl_pool"}
    /\ mpc = "raised" => ret = "ValueError"

\* the call asks for no download: nothing to fetch, or nothing to be fetched now
AsksNoDownload ==
    /\ op.kind \in {"get_file", "bulk_get_file"}
    /\ \/ ~op.exist
       \/ ~op.downloadit
       \/ IsBulk /\ op.as_dask = "delayed"
       \/ \A p \in Range(op.paths) : ~op.overwrite /\ os_path_isfile(files0, p)
                                       /\ (op.test_file => ~IsFits(p) \/ ParseOK(files0[p]))

\* C10 as stated: with a host outside the allowed ones, the request fails with
\* ValueError before any url is built, any login or request is sent, any file
\* is written.
C10_BadHostNothingHappens ==
    op.host \notin AllowedHosts =>
        /\ NothingDownloaded
        /\ nlogin = 0 /\ session = op.session0
        /\ mpc = "done" => AsksNoDownload

\* C10: the same, except that bulk_get_file has opened its session, with two
\* logins, before its get_file calls fail.
C10_BadHostFailsBeforeDownload ==
    op.host \notin AllowedHosts =>
        /\ NothingDownloaded
        /\ IF IsBulk
           THEN nlogin = (IF mpc = "bulk" THEN 0 ELSE 2)
           ELSE nlogin = 0 /\ session = op.session0
        /\ mpc = "done" => AsksNoDownload

C10_Witness ==
    /\ op.host \notin AllowedHosts
    /\ IsBulk
    /\ mpc = "raised" /\ ret = "ValueError"
    /\ nlogin = 2

\* C11: a batch in cutout mode without radec sends no request and writes no
\* file, and each of its fetches ends with ValueError (unless the destination
\* exists and is skipped), in the sequential loop, on the pool and on a client.
C11_CutoutWithoutRadecFails ==
    (op.cutouts /\ op.radec = "None") =>
        /\ NoRequest
        /\ files = files0
        /\ \A r \in results : r.exc = "ValueError" \/ r.val = "skipped"

\* no task of the batch has been handed out: no fetch, no check, no file or
\* sidecar touched
NoTaskExecuted ==
    /\ results = {} /\ todo = <<>> /\ \A e \in Execs : stack[e] = <<>>
    /\ NoRequest
    /\ files = files0
    /\ \A p \in Paths : hashes[p] # NoHash => os_path_isfile(files0, p)

\* the call has failed on its arguments, or is about to
FailsWithValueError ==
    /\ mpc \in {"dlurl", "tf_start", "raised"}
    /\ mpc = "raised" => ret = "ValueError"

\* the call runs its tasks in the calling thread only
RunsSequentially ==
    /\ mpc \notin {"dl_pool", "tf_pool"}
    /\ \A w \in Workers : stack[w] = <<>>
    /\ pool = "none"
    /\ ret # "ValueError"

\* C12 as stated: download_url and test_files with nprocess below 1 raise
\* ValueError before any task is executed; nprocess=None runs as nprocess=1.
C12_InvalidDegreeFails ==
    op.kind \in {"download_url", "test_files"} =>
        /\ (~op.nprocess_none /\ op.nprocess < 1) => NoTaskExecuted /\ FailsWithValueError
        /\ (op.nprocess_none /\ ~op.cutouts) => RunsSequentially

\* C12: the same for test_files and for download_url called without a dask
\* client; with a client download_url hands the tasks over before it looks at
\* nprocess.
C12_InvalidDegreeFailsNoClient ==
    (op.kind \in {"download_url", "test_files"} /\ ~op.client) =>
        /\ (~op.nprocess_none /\ op.nprocess < 1) => NoTaskExecuted /\ FailsWithValueError
        /\ (op.nprocess_none /\ ~op.cutouts) => RunsSequentially

C12_Witness ==
    /\ op.kind = "download_url" /\ op.nprocess_none
    /\ Len(batch) = MaxBatch
    /\ mpc = "done"
    /\ \E r \in results : r.val = "written"

\* C13: a call made with a session that already holds cookies sends no login,
\* reads no account and leaves the session as it was, however many times
\* get_cookie(session, update=False) is called on the way (once by
\* download_from_filename, once by each fetch).
C13_CookieCheckIsNoOp ==
    op.session0 = "cookies" => nlogin = 0 /\ ncred = 0 /\ session = "cookies"

C13_Witness ==
    /\ op.session0 = "cookies" /\ op.kind = "get_file" /\ op.nprocess = 1
    /\ mpc = "done"
    /\ \E r1, r2 \in results : r1.i # r2.i /\ r1.val = "written" /\ r2.val = "written"

\* C14 as stated: once the host has rejected the account at a login, no fetch
\* is sent with the session that got no cookies.
C14_RejectedLoginStopsTheCall ==
    (op.auth = "rejected" /\ nlogin > 0) => \A p \in Paths : nfetch[p] = 0

\* C15 as stated: compare_hash on a file whose sidecar holds the digest of its
\* present content returns True.
C15_CompareAfterRecordIsTrue ==
    (/\ call.fn = "compare_hash"
     /\ os_path_isfile(files, call.p)
     /\ hashes[call.p] = calculate_hash(files[call.p])) => ret = <<"True">>

\* C16 as stated: when get_file has fetched a file that was absent and the file
\* now holds valid content of a kind the check reads, its sidecar exists.
C16_FreshFetchLeavesSidecar ==
    \A p \in Range(op.paths) :
        (/\ op.kind = "get_file"
         /\ mpc = "done"
         /\ ~os_path_isfile(files0, p)
         /\ nfetch[p] > 0
         /\ Recognized(p)
         /\ files[p] = "valid") => hash_for_file_exists(hashes, p)

\* the files of the batch that fail the check: of a kind the check reads,
\* without sidecar, present and unreadable when test_files was called
FailedFiles ==
    SelectSeq(op.paths, LAMBDA p : /\ Recognized(p)
                                   /\ ~hash_for_file_exists(hashes, p)
                                   /\ os_path_isfile(files0, p)
                                   /\ ~ParseOK(files0[p]))

\* C17 as stated: test_files, called with a valid nprocess, ends by returning
\* a list, the files of the batch that failed the check in the order of the
\* batch (the empty list when none failed), and never by raising.
C17_ReturnsExactlyTheFailed ==
    (/\ op.kind = "test_files"
     /\ (op.nprocess_none \/ op.nprocess >= 1)
     /\ mpc \in {"done", "raised"}) =>
        /\ mpc = "done"
        /\ ret = "fileissue"
        /\ fileissue = FailedFiles

\* C18: download_url with nprocess 1 or None and no dask client runs its tasks
\* in the calling thread, one at a time and in the order of the batch: the
\* task that runs is the one after those that have ended (their post-fetch
\* check included), the call raises only what a task raised, and a task that
\* ended on an http error is followed by the rest of the batch.
C18_SequentialInOrder ==
    (/\ op.kind = "download_url" /\ ~op.client
     /\ (op.nprocess_none \/ op.nprocess = 1)) =>
        /\ \A w \in Workers : stack[w] = <<>>
        /\ \A k \in 1..Len(got) : got[k] = k /\ \E r \in results : r.i = k
        /\ stack[Main] # <<>> => cur[Main] = Len(got) + 1
        /\ mpc = "raised" => \E r \in results : r.i = Len(got) /\ r.exc = ret
        /\ mpc = "done" => /\ Len(got) = Len(batch)
                           /\ \A r \in results : r.exc = "none"

C18_Witness ==
    /\ op.kind = "download_url" /\ ~op.client /\ op.nprocess_none
    /\ mpc = "done"
    /\ Done(1, "none", "http_error") \in results
    /\ Done(2, "none", "written") \in results

\* C19 as stated: whatever show_progress is, a fetch that has opened its
\* destination after a 200 answer goes on to write the body into it.
C19_ProgressChangesNothing ==
    [][\A e \in Execs : (Running(e, "dsu", "open") /\ StepOf(e)) =>
            /\ stack'[e] # <<>>
            /\ stack'[e][Len(stack'[e])].pc = "write"]_vars

\* C20 as stated: a bulk_get_file call that returns in the computed or
\* gathered mode has closed its session, one that returns in the delayed,
\* futures or persist mode returns the session open, and with any other
\* as_dask no task is handed out, none runs and no fetch is sent.
C20_SessionLifecycle ==
    IsBulk =>
        /\ (op.as_dask \in {"computed", "gathered"} /\ mpc = "done") => session = "closed"
        /\ (op.as_dask \in {"delayed", "futures", "persist"} /\ mpc = "done") =>
               /\ session = "cookies"
               /\ ret \in {"delayed+session", "futures+session", "persisted+session"}
        /\ (op.as_dask = "other") =>
               /\ mpc \in {"bulk", "raised"}
               /\ todo = <<>>
               /\ \A e \in Execs : stack[e] = <<>>
               /\ \A p \in Paths : nfetch[p] = 0

\* C21: a fetch whose transfer broke mid-stream has ended with the transfer's
\* exception and its destination holds the partial file: nothing checked it,
\* nothing erased it.
C21_BrokenTransferLeavesPartial ==
    \A r \in results :
        r.exc = "TransferError" =>
            /\ r.val = "none"
            /\ files[batch[r.i]] = "partial"

C21_Witness ==
    /\ op.kind = "download_url" /\ op.filecheck /\ op.erasebad
    /\ mpc = "raised" /\ ret = "TransferError"
    /\ \E r \in results :
         /\ r.exc = "TransferError"
         /\ Recognized(batch[r.i])
         /\ files0[batch[r.i]] = "valid"
         /\ files[batch[r.i]] = "partial"

\* C22 as stated: with filecheck and erasebad, a fetch that wrote a file of a
\* kind the check reads and has ended does not leave corrupt content at the
\* destination, whether or not the file it overwrote had a sidecar.
C22_WrittenCorruptIsErased ==
    \A r \in results :
        (/\ op.filecheck /\ op.erasebad
         /\ r.exc = "none" /\ r.val = "written"
         /\ Recognized(batch[r.i])) => files[batch[r.i]] # "corrupt"

\* C23 as stated: when download_from_filename has handed its batch to the
\* worker pool, no step of a worker sends a login or changes the session.
C23_WorkersNeverLogIn ==
    [][\A w \in Workers :
          (/\ op.kind \in {"download_from_filename", "get_file"}
           /\ pool \in {"open", "leaked"}
           /\ StepOf(w)) => nlogin' = nlogin /\ session' = session]_vars

\* C24 as stated: once download_url has ended, by returning or by raising, the
\* pool it created is closed; a pool given by the caller is open at all times.
C24_PoolClosedOnEveryPath ==
    /\ (call.own_pool /\ mpc \in {"done", "raised", "output"}) =>
           pool \in {"none", "dask", "closed"}
    /\ ~call.own_pool => pool = "open"

\* the paths of the call that the cache decision has flagged
FlaggedSet == {op.paths[i] : i \in {j \in DOMAIN flags : flags[j]}}

\* C25: the batch get_file hands to download_from_filename is the set of the
\* paths it flagged when downloadit and exist are set, and empty otherwise;
\* when get_file has returned every path of the batch has been fetched once;
\* a path outside the batch is never fetched and its file is never changed.
C25_GetFileFrame ==
    op.kind = "get_file" =>
        /\ Range(batch) = IF op.downloadit /\ op.exist THEN FlaggedSet ELSE {}
        /\ mpc = "done" => \A p \in Range(batch) : nfetch[p] = 1
        /\ \A p \in Paths \ Range(batch) : nfetch[p] = 0 /\ files[p] = files0[p]

C25_Witness ==
    /\ op.kind = "get_file" /\ mpc = "done"
    /\ Len(op.paths) = MaxBatch
    /\ Len(batch) = 1
    /\ files[batch[1]] # files0[batch[1]]
    /\ \E p \in Range(op.paths) \ Range(batch) : files[p] = "corrupt"

\* C26 as stated: download_url on the pool with overwrite=True, every transfer
\* whole and valid: once it has returned, every destination of the batch holds
\* valid content, also when the batch names a destination twice.
C26_DuplicatesEndValid ==
    (/\ op.kind = "download_url" /\ op.nprocess > 1 /\ op.overwrite
     /\ op.remote = "valid"
     /\ mpc = "done") => \A p \in Range(batch) : files[p] = "valid"

\* C27 as stated: what download_url leaves on disk does not depend on the mode;
\* in both modes, as in the sequential one, a recognized file it has written
\* is still there when filecheck is off, and has a sidecar when it is valid and
\* filecheck and write_hash are on.
C27_ModesAgree ==
    (op.kind = "download_url" /\ ~op.client /\ mpc = "done") =>
        \A r \in results :
            (r.exc = "none" /\ r.val = "written" /\ Recognized(batch[r.i])) =>
                /\ ~op.filecheck => os_path_isfile(files, batch[r.i])
                /\ (op.filecheck /\ op.write_hash /\ files[batch[r.i]] = "valid") =>
                       hash_for_file_exists(hashes, batch[r.i])

\* C28: test_files without redownload, on distinct paths, ends by returning in
\* the pool mode as in the sequential mode: each verdict is that of the file
\* of its index, and the files reported are the failed files of the batch in
\* the order of the batch (None instead of a list when there is none).
C28_PoolReportsAsSequential ==
    (/\ op.kind = "test_files" /\ ~op.redownload
     /\ (op.nprocess_none \/ op.nprocess >= 1)) =>
        /\ mpc # "raised"
        /\ \A r \in results : r.exc = "none" /\ (r.val = "bad" <=>
               \E k \in DOMAIN FailedFiles : FailedFiles[k] = batch[r.i])
        /\ mpc = "done" => /\ fileissue = FailedFiles
                           /\ ret = IF FailedFiles = <<>> THEN "None" ELSE "fileissue"

C28_Witness ==
    /\ op.kind = "test_files" /\ ~op.redownload /\ op.nprocess = MaxWorkers
    /\ ~op.nprocess_none
    /\ mpc = "done"
    /\ Len(op.paths) = MaxBatch
    /\ fileissue = <<op.paths[MaxBatch]>>
====
